---- MODULE Spec2Model ----
(***************************************************************************)
(* Task-offload and worker-pool subsystem of franktorio-tbs-bot.           *)
(*                                                                         *)
(*   src/src/workers/queue.py      WorkerQueue   (the Worker Pool)         *)
(*   src/src/workers/worker.py     Worker, start_workers                   *)
(*   src/src/core/decorators.py    offload_fallback,                       *)
(*                                 offload_fallback_return (the Gateway)   *)
(*                                                                         *)
(* Spec      : the program: start_workers, the worker threads and the      *)
(*             gateway-wrapped capability calls on the master loop.        *)
(* SpecPool  : the Worker Pool driven through its own interface,           *)
(*             get_worker(search) and add_worker, by one caller at a time, *)
(*             with the worker threads running beside it.                  *)
(* SpecLive  : Spec with a fair master loop: a capability awaited on the   *)
(*             master bot returns or raises.                               *)
(* SpecStart : SpecPool with Worker.start called on any Worker object,     *)
(*             started before or not.                                      *)
(* SpecRace  : WorkerQueue.get_worker() called from several threads at     *)
(*             once, statement by statement.                               *)
(* SpecSubmit: Worker.execute_task / execute_task_return called directly   *)
(*             from helper threads, with the Worker's thread, its          *)
(*             Execution Context and the tasks on its loop.                *)
(***************************************************************************)
EXTENDS Integers, Sequences, FiniteSets, TLC

\* ---------------------------------------------------------------- bounds
MaxWorkers == 3      \* worker tokens handed to start_workers
MaxCalls   == 2      \* gateway calls in flight or finished
MaxProbes  == 5      \* loop iterations of _get_nearest_running_worker followed
MaxSubs    == 3      \* direct calls of Worker.execute_task / execute_task_return
MaxTargets == 1      \* Workers started where the direct calls are followed
MaxStarts  == 4      \* calls of Worker.start where a Worker may be started again
MaxSelectors == 2    \* threads that call get_worker at the same time

WorkerIds == 1..MaxWorkers
CallIds   == 1..MaxCalls
SubIds    == 1..MaxSubs
SelectorIds == 1..MaxSelectors

\* ------------------------------------------------------- values of inputs
\* The 'task_timeout' keyword a caller may pass to a wrapped capability:
\* not passed at all, None (wait forever), 0 (fire-and-forget), N > 0 seconds.
Absent == "absent"
PyNone == "None"
Passed == {Absent, PyNone, "0", "10"}

\* The two gateways: offload_fallback (commands) and offload_fallback_return
\* (queries).
Variants == {"command", "query"}

\* What the wrapped capability does when it runs on a Worker's context: it
\* completes within any bounded wait, it raises within any bounded wait, it
\* completes but only after any bounded wait has elapsed, or it does not resolve.
Behaviours == {"completes", "raises", "slow", "hangs"}

\* What a capability returns: the command capabilities return a bool,
\* the query capabilities an object or None.
Returns(variant) == IF variant = "command" THEN {"True", "False"} ELSE {"Value", PyNone}

VARIABLES
    workers,        \* WorkerQueue._workers: sequence of Worker objects
    worker_index,   \* WorkerQueue._worker_index
    running,        \* Worker.running, per Worker object
    thread,         \* Worker.thread, per Worker object: "None" or "Thread"
    index,          \* Worker.index, per Worker object (-1 stands for None)
    sel,            \* the get_worker call of SpecPool's caller
    recent,         \* Workers returned by the latest consecutive selections of
                    \* SpecPool's caller made while every registered Worker was running
    capability,     \* the wrapped capability func: its gateway variant, and what
                    \* it does when it runs on a Worker's context
    calls,          \* the gateway calls of func, per call id
    ctx,            \* the Execution Context (bot_instance and its loop), per Worker object
    tasks_performed,\* Worker.tasks_performed, per Worker object
    subs,           \* the calls of Worker.execute_task / execute_task_return made
                    \* from helper threads, per submission id
    spawned,        \* threading.Thread objects created and started by
                    \* Worker.start, per Worker object
    selectors       \* the calls of WorkerQueue.get_worker() made from several
                    \* threads at once, per thread

vars == <<workers, worker_index, running, thread, index, sel, recent, capability, calls,
         ctx, tasks_performed, subs, spawned, selectors>>

\* ------------------------------------------------------------ Worker Pool
\* WorkerQueue.add_worker: append, and return the index of the added Worker.
add_worker_front(ws, w) == <<w>> \o ws

add_worker(ws, w) == Append(ws, w)

\* add_worker: 'return len(self._workers) - 1', after the append.
add_worker_index_next(ws) == Len(ws) + 1

add_worker_index(ws) == Len(ws)

\* get_worker, the wrap of the cursor: 'if self._worker_index >= len(self._workers):
\* self._worker_index = 0'.
Wrap(idx, n) == IF idx >= n THEN 0 ELSE idx

\* get_worker: 'self._worker_index += 1'.
AdvanceStuck(p) == p

Advance(p) == p + 1

\* The Worker object at position p (0-based, as in the source) of the pool.
WorkerAt(ws, p) == ws[p + 1]

\* _get_nearest_running_worker: 'if worker.running: return worker'.
ProbeAcceptsAny(run, w) == TRUE

ProbeAccepts(run, w) == run[w]

\* One call of get_worker(search) up to its return or up to its call of
\* _get_nearest_running_worker.  kind is
\*   "IndexError" : self._workers[self._worker_index] on an empty list raises,
\*   "search"     : the Worker read is not running and search is set,
\*   "worker"     : the Worker read is returned and the cursor advanced.
\* index is the value left in self._worker_index, pos the position read.
get_worker(ws, idx, run, search) ==
    LET n == Len(ws)
        p == Wrap(idx, n)
    IN  IF n = 0
        THEN [kind |-> "IndexError", index |-> p, pos |-> p, worker |-> 0]
        ELSE IF ~run[WorkerAt(ws, p)] /\ search
             THEN [kind |-> "search", index |-> p, pos |-> p, worker |-> WorkerAt(ws, p)]
             ELSE [kind |-> "worker", index |-> Advance(p), pos |-> p,
                   worker |-> WorkerAt(ws, p)]

\* One iteration of the 'while True' of _get_nearest_running_worker:
\* worker = self.get_worker(search=False); return it if it is running; return
\* None if the cursor is back at start_index; otherwise go round again.
\* The Worker found is handed back to get_worker, which advances the cursor
\* once more before it returns ('self._worker_index += 1').
nearest_step(ws, idx, run, start_index) ==
    LET g == get_worker(ws, idx, run, FALSE)
    IN  IF g.kind = "IndexError"
        THEN [kind |-> "IndexError", index |-> g.index, worker |-> 0]
        ELSE IF ProbeAccepts(run, g.worker)
             THEN [kind |-> "worker", index |-> Advance(g.index), worker |-> g.worker]
             ELSE IF g.index = start_index
                  THEN [kind |-> "None", index |-> g.index, worker |-> 0]
                  ELSE [kind |-> "again", index |-> g.index, worker |-> 0]

\* WORKER_QUEUE.get_available_worker(), as the gateway calls it: the pool's
\* selection without the liveness search.
get_available_worker(ws, idx, run) == get_worker(ws, idx, run, FALSE)

AllRunning == \A i \in 1..Len(workers) : running[workers[i]]

AnyRunning == \E i \in 1..Len(workers) : running[workers[i]]

\* ------------------------------------------------------------------ Init
IdleSel ==
    [pc |-> "idle", search |-> FALSE, start_index |-> 0, probes |-> 0,
     kind |-> "none", worker |-> 0, pos |-> 0, cursor |-> 0, n |-> 0,
     snap |-> [w \in WorkerIds |-> FALSE]]

IdleCall ==
    [pc |-> "idle", passed |-> Absent, worker |-> 0, wrun |-> FALSE,
     task_timeout |-> PyNone, dispatch |-> "none", fallbackRuns |-> 0,
     ret |-> PyNone, result |-> PyNone, exc |-> "None"]

\* A submission not made yet.  task is the coroutine handed to the Worker's
\* loop; loaded is the value of tasks_performed read by '+= 1' and not yet
\* written back; incs counts the writes of tasks_performed this call has made.
IdleSub ==
    [pc |-> "idle", worker |-> 0, wrun |-> FALSE, task_timeout |-> PyNone,
     task |-> "none", outcome |-> "none", loaded |-> 0, incs |-> 0,
     res |-> PyNone, ret |-> PyNone]

\* A thread that is not inside get_worker.  n is len(self._workers) as the
\* call saw it at its wrap test, pos the value of self._worker_index it used as
\* subscript, loaded the value of self._worker_index read by '+= 1'.
IdleSelector == [pc |-> "idle", n |-> 0, pos |-> 0, worker |-> 0, loaded |-> 0]

Init ==
    /\ workers = <<>>
    /\ worker_index = 0
    /\ running = [w \in WorkerIds |-> FALSE]
    /\ thread = [w \in WorkerIds |-> "None"]
    /\ index = [w \in WorkerIds |-> -1]
    /\ sel = IdleSel
    /\ recent = <<>>
    /\ capability \in [variant : Variants, beh : Behaviours]
    /\ calls = [c \in CallIds |-> IdleCall]
    /\ ctx = [w \in WorkerIds |-> "None"]
    /\ tasks_performed = [w \in WorkerIds |-> 0]
    /\ subs = [s \in SubIds |-> IdleSub]
    /\ spawned = [w \in WorkerIds |-> 0]
    /\ selectors = [t \in SelectorIds |-> IdleSelector]

\* ------------------------------------------------------ Worker life cycle
\* Worker.start: 'if self.thread is None:'.
spawns_always(th) == TRUE

spawns(th) == th = "None"

\* Worker.start: register with the pool, then spawn the thread if there is none.
Start(w) ==
    /\ index' = [index EXCEPT ![w] = add_worker_index(workers)]
    /\ workers' = add_worker(workers, w)
    /\ thread' = [thread EXCEPT ![w] = IF spawns(@) THEN "Thread" ELSE @]
    /\ spawned' = [spawned EXCEPT ![w] = IF spawns(thread[w]) THEN @ + 1 ELSE @]
    /\ recent' = <<>>
    /\ UNCHANGED <<selectors, worker_index, running, sel, capability, calls, ctx, tasks_performed, subs>>

\* start_workers: one turn of 'for token in worker_tokens': Worker(token), start().
\* The pool's caller is one thread: no Worker registers in the middle of its
\* liveness search.
StartWorkers ==
    /\ Len(workers) < MaxWorkers
    /\ sel.pc # "search"
    /\ Start(Len(workers) + 1)

\* Worker._run on the Worker's thread, up to 'self.running = True':
\* the bot instance is built and the events are registered, the flag is set,
\* and 'self.bot_instance.run(self.token)' is about to be entered.
Run(w) ==
    /\ thread[w] = "Thread"
    /\ ~running[w]
    /\ running' = [running EXCEPT ![w] = TRUE]
    /\ ctx' = [ctx EXCEPT ![w] = "starting"]
    /\ UNCHANGED <<selectors, spawned, workers, worker_index, thread, index, sel, recent, capability, calls,
                   tasks_performed, subs>>

\* ------------------------------------------------ selection, one caller
\* The last n entries of s.
LastN(s, n) == IF Len(s) <= n THEN s ELSE SubSeq(s, Len(s) - n + 1, Len(s))

\* recent after a call of get_worker that ended as g.
NoteSelection(g) ==
    IF g.kind = "worker" /\ AllRunning
    THEN LastN(Append(recent, g.worker), Len(workers))
    ELSE <<>>

\* WorkerQueue.get_worker(search), entered by the pool's caller.  Without a
\* search, or when the Worker read is running, the call returns at once; an
\* empty pool raises IndexError; otherwise the call enters
\* _get_nearest_running_worker with start_index = self._worker_index.
Select(search) ==
    /\ sel.pc # "search"
    /\ LET g == get_worker(workers, worker_index, running, search)
       IN  /\ worker_index' = g.index
           /\ sel' = [pc |-> IF g.kind = "search" THEN "search" ELSE "done",
                      search |-> search, start_index |-> g.index, probes |-> 0,
                      kind |-> g.kind, worker |-> g.worker, pos |-> g.pos,
                      cursor |-> worker_index, n |-> Len(workers), snap |-> running]
           /\ recent' = NoteSelection(g)
    /\ UNCHANGED <<selectors, spawned, workers, running, thread, index, capability, calls, ctx, tasks_performed, subs>>

\* One iteration of the loop of _get_nearest_running_worker.  The loop has no
\* bound of its own; MaxProbes is how many of its iterations are followed.
Probe ==
    /\ sel.pc = "search"
    /\ sel.probes < MaxProbes
    /\ LET s == nearest_step(workers, worker_index, running, sel.start_index)
       IN  /\ worker_index' = s.index
           /\ sel' = [sel EXCEPT !.pc = IF s.kind = "again" THEN "search" ELSE "done",
                                 !.probes = @ + 1,
                                 !.kind = s.kind,
                                 !.worker = s.worker]
    /\ recent' = <<>>
    /\ UNCHANGED <<selectors, spawned, workers, running, thread, index, capability, calls, ctx, tasks_performed, subs>>

NextPool ==
    \/ StartWorkers
    \/ \E w \in WorkerIds : Run(w)
    \/ \E search \in BOOLEAN : Select(search)
    \/ Probe

SpecPool == Init /\ [][NextPool]_vars

\* ------------------------------------------------- claims on the pool
\* The first position, in cyclic order from p, of a Worker that run marks
\* running, among the first n positions of ws.
FirstRunningFrom(ws, run, p, n) ==
    LET k == CHOOSE d \in 0..(n - 1) :
                 /\ run[ws[((p + d) % n) + 1]]
                 /\ \A e \in 0..(d - 1) : ~run[ws[((p + e) % n) + 1]]
    IN  (p + k) % n

\* C6: with N >= 1 registered Workers, none of them running, get_worker(search=True)
\* returns None after at most N iterations of the search, from every cursor
\* position: a search still going on has made fewer than N iterations, and a
\* finished one returned None within N.
C6_SearchStopsWithinN ==
    /\ (sel.pc = "search" /\ ~AnyRunning) => sel.probes < sel.n
    /\ (sel.pc = "done" /\ sel.search /\ sel.n >= 1 /\ ~AnyRunning)
          => (sel.kind = "None" /\ sel.probes <= sel.n)

\* C7: when some registered Worker is running, get_worker(search=True) returns
\* the first running Worker in cyclic order from the cursor (the liveness of
\* the Workers being the same at the return as at the call).
C7_SelectReturnsFirstRunning ==
    (/\ sel.pc = "done"
     /\ sel.search
     /\ running = sel.snap
     /\ \E i \in 1..sel.n : sel.snap[workers[i]])
        => /\ sel.kind = "worker"
           /\ running[sel.worker]
           /\ sel.worker = WorkerAt(workers, FirstRunningFrom(workers, sel.snap, sel.pos, sel.n))

\* C7, its case: Workers [W0 running, W1 not running, W2 running], the cursor
\* at W1, and the search returned W2.
C7_Witness ==
    /\ sel.pc = "done" /\ sel.search /\ sel.n = 3 /\ sel.pos = 1
    /\ running = sel.snap
    /\ running[workers[1]] /\ ~running[workers[2]] /\ running[workers[3]]
    /\ sel.kind = "worker" /\ sel.worker = workers[3]

\* C8: with N Workers, all running, any N consecutive selections return N
\* distinct Workers (recent holds at most the last N of them).
C8_RoundRobinDistinct ==
    \A i, j \in 1..Len(recent) : i < j => recent[i] # recent[j]

\* C8, its case: three Workers, all running, and three selections in a row
\* that begin in the middle of the pool and wrap round its end.
C8_Witness ==
    /\ Len(workers) = 3 /\ AllRunning /\ Len(recent) = 3
    /\ recent[1] = workers[2] /\ recent[3] = workers[1]

\* C9: the position a selection reads is cursor mod len(workers), inside
\* 0..len(workers)-1.
C9_ReadsCursorModLen ==
    (sel.pc # "idle" /\ sel.n >= 1)
        => (sel.pos = sel.cursor % sel.n /\ sel.pos \in 0..(sel.n - 1))

\* ---------------------------------------------------------------- Gateway
\* wrapper: 'task_timeout = kwargs.pop('task_timeout', None)'.
pop_task_timeout(passed) == IF passed = Absent THEN PyNone ELSE passed

\* wrapper: 'await loop.run_in_executor(None, worker.execute_task, func, *args,
\* task_timeout=task_timeout, **kwargs)'.  asyncio's run_in_executor(executor,
\* func, *args) takes no keyword arguments: called with one it raises TypeError
\* before anything is handed to the executor.
run_in_executor_accepts(keywords) == "submitted"

run_in_executor(keywords) == IF keywords THEN "TypeError" ELSE "submitted"

\* wrapper: what the caller gets once the capability has returned ret on the
\* master bot: the command variant sets success = True, the query variant
\* hands ret on.
fallback_result(variant, ret) == IF variant = "command" THEN "True" ELSE ret

\* offload_fallback.wrapper / offload_fallback_return.wrapper, from its entry
\* to its first suspension.  The selection raises IndexError on an empty pool,
\* outside the try, and the call ends there.  Otherwise the submission through
\* run_in_executor is made with the task_timeout keyword, raises TypeError, the
\* 'except Exception' swallows it, success / result keep their initial value and
\* the wrapper awaits func(master_bot, ...).  (A submission that went through
\* would leave the call waiting on the helper thread, pc "offloaded".)
Invoke(c, passed) ==
    /\ calls[c].pc = "idle"
    /\ IF c = 1 THEN TRUE ELSE calls[c - 1].pc # "idle"
    /\ LET g == get_available_worker(workers, worker_index, running)
           d == run_in_executor(TRUE)
           in == [IdleCall EXCEPT !.passed = passed]
       IN  /\ worker_index' = g.index
           /\ calls' = [calls EXCEPT ![c] =
                 IF g.kind = "IndexError"
                 THEN [in EXCEPT !.pc = "raised", !.exc = "IndexError"]
                 ELSE [in EXCEPT !.worker = g.worker,
                                 !.wrun = running[g.worker],
                                 !.task_timeout = pop_task_timeout(passed),
                                 !.dispatch = d,
                                 !.pc = IF d = "submitted" THEN "offloaded" ELSE "fallback",
                                 !.fallbackRuns = IF d = "submitted" THEN 0 ELSE 1]]
    /\ UNCHANGED <<selectors, spawned, workers, running, thread, index, sel, recent, capability, ctx, tasks_performed, subs>>

\* wrapper: 'await func(master_bot, *args, **kwargs)' returns ret.
FallbackReturn(c, ret) ==
    /\ calls[c].pc = "fallback"
    /\ ret \in Returns(capability.variant)
    /\ calls' = [calls EXCEPT ![c].pc = "returned",
                              ![c].ret = ret,
                              ![c].result = fallback_result(capability.variant, ret)]
    /\ UNCHANGED <<selectors, spawned, workers, worker_index, running, thread, index, sel, recent, capability, ctx, tasks_performed, subs>>

\* wrapper: the call after 'await func(master_bot, *args, **kwargs)' has raised:
\* the await is in no try, the exception leaves the wrapper.
fallback_retried(call) == [call EXCEPT !.fallbackRuns = @ + 1]

fallback_raised(call) == [call EXCEPT !.pc = "raised", !.exc = "FallbackFailure"]

\* wrapper: 'await func(master_bot, *args, **kwargs)' raises; nothing catches it.
FallbackRaise(c) ==
    /\ calls[c].pc = "fallback"
    /\ calls' = [calls EXCEPT ![c] = fallback_raised(@)]
    /\ UNCHANGED <<selectors, spawned, workers, worker_index, running, thread, index, sel, recent, capability, ctx, tasks_performed, subs>>

Next ==
    \/ StartWorkers
    \/ \E w \in WorkerIds : Run(w)
    \/ \E c \in CallIds, passed \in Passed : Invoke(c, passed)
    \/ \E c \in CallIds, ret \in {"True", "False", "Value", PyNone} : FallbackReturn(c, ret)
    \/ \E c \in CallIds : FallbackRaise(c)

Spec == Init /\ [][Next]_vars

\* --------------------------------------------- claims on the gateway
\* The capability's declared default, 'task_timeout: int = 10'.
DeclaredDefault == "10"

Finished(c) == calls[c].pc \in {"returned", "raised"}

\* How often call c ran the capability on a Worker's loop.
WorkerRuns(c) == IF calls[c].dispatch = "submitted" THEN 1 ELSE 0

\* The worker attempt of call c failed: no Worker, a Worker that is not running,
\* a submission that raised, a task that raised or outlasted a bounded wait.
WorkerAttemptFailed(c) ==
    \/ calls[c].worker = 0
    \/ ~calls[c].wrun
    \/ calls[c].dispatch = "TypeError"
    \/ calls[c].dispatch = "submitted" /\ capability.beh = "raises"
    \/ calls[c].dispatch = "submitted" /\ capability.beh \in {"slow", "hangs"}
          /\ calls[c].task_timeout \notin {PyNone, "0"}

\* C1: every gateway call runs the capability on exactly one of
\* {a Worker, the Fallback Context}: never on both, and a finished call on one.
C1_ExactlyOnePath ==
    \A c \in CallIds :
        /\ WorkerRuns(c) + calls[c].fallbackRuns <= 1
        /\ Finished(c) => WorkerRuns(c) + calls[c].fallbackRuns = 1

\* C2: a call that finds a running Worker, and whose task completes within the
\* timeout, is served by the worker path and does not use the Fallback Context:
\* when it has finished, the capability has run on the Worker and not on the
\* Fallback Context.
C2_ServedByWorker ==
    \A c \in CallIds :
        (Finished(c) /\ calls[c].wrun /\ capability.beh = "completes")
            => (WorkerRuns(c) = 1 /\ calls[c].fallbackRuns = 0)

\* C3: a call (of either variant) that obtained a Worker on which its task
\* completes never invokes the capability on the Fallback Context.
C3_NoFallbackAfterWorkerSuccess ==
    \A c \in CallIds :
        (calls[c].worker # 0 /\ calls[c].wrun /\ capability.beh = "completes")
            => calls[c].fallbackRuns = 0

\* C4: a call whose worker attempt failed invokes the capability once on the
\* Fallback Context, and its caller sees no error of the worker side.
C4_FailedAttemptFallsBackOnce ==
    \A c \in CallIds :
        (Finished(c) /\ WorkerAttemptFailed(c))
            => (calls[c].fallbackRuns = 1 /\ calls[c].exc \in {"None", "FallbackFailure"})

\* C5: with no Worker registered, a call runs the capability on the Fallback
\* Context and returns what the capability returned there; no exception of the
\* empty pool reaches the caller.
C5_EmptyPoolFallsBack ==
    \A c \in CallIds :
        (Finished(c) /\ Len(workers) = 0)
            => /\ calls[c].exc # "IndexError"
               /\ calls[c].fallbackRuns = 1
               /\ calls[c].pc = "returned" => calls[c].result = calls[c].ret

\* C10: a call whose caller passed no task_timeout submits to the Worker with
\* the capability's declared bounded default, never with None.
C10_DefaultTimeoutBounded ==
    \A c \in CallIds :
        (calls[c].passed = Absent /\ calls[c].worker # 0)
            => calls[c].task_timeout = DeclaredDefault

\* ------------------------------------------- Execution Context life cycle
\* 'self.bot_instance.run(self.token)' on the Worker's thread has logged in,
\* connected, and dispatched on_ready (events.start registers the handler).
\* Nothing here writes Worker.running.
Ready(w) ==
    /\ ctx[w] = "starting"
    /\ ctx' = [ctx EXCEPT ![w] = "ready"]
    /\ UNCHANGED <<selectors, spawned, workers, worker_index, running, thread, index, sel, recent, capability,
                   calls, tasks_performed, subs>>

\* 'self.bot_instance.run(self.token)' returns or raises: the loop is closed and
\* _run, the thread's target, ends.  No statement follows bot.run in _run and no
\* handler is registered for a disconnect: Worker.running keeps its value.
Exit(w) ==
    /\ ctx[w] \in {"starting", "ready"}
    /\ ctx' = [ctx EXCEPT ![w] = "closed"]
    /\ UNCHANGED <<selectors, spawned, workers, worker_index, running, thread, index, sel, recent, capability,
                   calls, tasks_performed, subs>>

\* start_workers with MaxTargets tokens.
StartTarget ==
    /\ Len(workers) < MaxTargets
    /\ Start(Len(workers) + 1)

\* ---------------------------------------------------------------- Submit
\* The task_timeout argument of execute_task / execute_task_return:
\* None (wait forever), 0 (fire-and-forget), N > 0 seconds.
TaskTimeouts == {PyNone, "0", "10"}

\* 'if not self.running: ... return False' / 'return None'.
guard_rejects_never(run, w) == FALSE

guard_rejects(run, w) == ~run[w]

\* What execute_task (command) and execute_task_return (query) hand back:
\* at the guard, on a timeout and on an exception of the task,
failure_value(variant) == IF variant = "command" THEN "False" ELSE PyNone

\* after 'if task_timeout == 0: self.tasks_performed += 1',
ff_value(variant) == IF variant = "command" THEN "True" ELSE PyNone

\* after 'result.result(timeout=task_timeout)' gave res.
success_value_flag(variant, res) == "True"

success_value(variant, res) == IF variant = "command" THEN "True" ELSE res

\* asyncio.run_coroutine_threadsafe(coro, self.bot_instance.loop), by the state
\* of the Execution Context: TRUE when the coroutine is put on the loop, FALSE
\* when the call raises.  While bot.run is starting the loop is first missing and
\* then there; without a bot instance and on a closed loop the call raises.
loop_accepts(c) ==
    IF c = "ready" THEN {TRUE} ELSE IF c = "starting" THEN {TRUE, FALSE} ELSE {FALSE}

\* 'except concurrent.futures.TimeoutError: ... return False': what is done to
\* the coroutine on the loop: nothing.
cancel_on_timeout(task) == "cancelled"

after_timeout(task) == task

\* Worker.execute_task / execute_task_return called on Worker w from a helper
\* thread, up to its first blocking point.  Not running: the guard returns the
\* failure value.  Otherwise the coroutine is handed to the loop (an exception of
\* run_coroutine_threadsafe, raised before the try, leaves the call); with
\* task_timeout == 0 the call goes on to 'self.tasks_performed += 1' and has read
\* the counter; with any other task_timeout it blocks in result.result().
Submit(s, w, t, accepted) ==
    /\ subs[s].pc = "idle"
    /\ IF s = 1 THEN TRUE ELSE subs[s - 1].pc # "idle"
    /\ \E i \in 1..Len(workers) : workers[i] = w
    /\ accepted \in loop_accepts(ctx[w])
    /\ LET in == [IdleSub EXCEPT !.worker = w, !.wrun = running[w], !.task_timeout = t]
       IN  subs' = [subs EXCEPT ![s] =
             IF guard_rejects(running, w)
             THEN [in EXCEPT !.pc = "returned", !.outcome = "not_running",
                             !.ret = failure_value(capability.variant)]
             ELSE IF ~accepted
             THEN [in EXCEPT !.pc = "returned", !.outcome = "schedule_error",
                             !.ret = "exception"]
             ELSE IF t = "0"
             THEN [in EXCEPT !.pc = "loaded", !.outcome = "ff", !.task = "pending",
                             !.loaded = tasks_performed[w]]
             ELSE [in EXCEPT !.pc = "waiting", !.task = "pending"]]
    /\ UNCHANGED <<selectors, spawned, workers, worker_index, running, thread, index, sel, recent, capability,
                   calls, ctx, tasks_performed>>

\* The loop of the Worker that holds the coroutine of submission s still runs.
LoopAlive(s) == ctx[subs[s].worker] \in {"starting", "ready"}

\* Submission s is blocked in result.result(timeout=N) with N > 0.
BoundedWait(s) == subs[s].pc = "waiting" /\ subs[s].task_timeout = "10"

\* The submissions in the order they were made.
SubSeq1N == [s \in SubIds |-> s]

\* The coroutines handed to the loop of Worker w by run_coroutine_threadsafe
\* that have not begun, in the order they were handed over.
loop_queue(w) ==
    SelectSeq(SubSeq1N, LAMBDA s : subs[s].worker = w /\ subs[s].task = "pending")

\* The loop takes its callbacks in the order they were registered.
last_task(q) == q[Len(q)]

next_task(q) == Head(q)

\* The loop of the Worker begins the coroutine of submission s.
TaskBegin(s) ==
    /\ subs[s].task = "pending"
    /\ LoopAlive(s)
    /\ s = next_task(loop_queue(subs[s].worker))
    /\ subs' = [subs EXCEPT ![s].task = "running"]
    /\ UNCHANGED <<selectors, spawned, workers, worker_index, running, thread, index, sel, recent,
                   capability, calls, ctx, tasks_performed>>

\* 'result.result(timeout=task_timeout)' in execute_task drops what the task
\* returned; 'res = result.result(timeout=task_timeout)' in execute_task_return
\* keeps it.
result_kept(variant, r) == IF variant = "command" THEN PyNone ELSE r

\* The coroutine of submission s returns r on the Worker's loop.  A caller still
\* blocked in result.result() gets r, and goes on to 'self.tasks_performed += 1',
\* of which it has read the counter.  A caller that has left (fire-and-forget,
\* timeout) is not told.
TaskFinish(s, r) ==
    /\ subs[s].task = "running"
    /\ LoopAlive(s)
    /\ \/ capability.beh = "completes"
       \/ capability.beh = "slow" /\ ~BoundedWait(s)
    /\ r \in Returns(capability.variant)
    /\ subs' = [subs EXCEPT ![s] =
          IF @.pc = "waiting"
          THEN [@ EXCEPT !.task = "done", !.pc = "loaded", !.outcome = "ok",
                         !.res = result_kept(capability.variant, r),
                         !.loaded = tasks_performed[subs[s].worker]]
          ELSE [@ EXCEPT !.task = "done"]]
    /\ UNCHANGED <<selectors, spawned, workers, worker_index, running, thread, index, sel, recent, capability,
                   calls, ctx, tasks_performed>>

\* The coroutine of submission s raises on the Worker's loop.  A caller still
\* blocked in result.result() gets the exception: 'except Exception: ... return
\* False' / 'return None'.
TaskRaise(s) ==
    /\ subs[s].task = "running"
    /\ LoopAlive(s)
    /\ capability.beh = "raises"
    /\ subs' = [subs EXCEPT ![s] =
          IF @.pc = "waiting"
          THEN [@ EXCEPT !.task = "raised", !.pc = "returned", !.outcome = "task_raised",
                         !.ret = failure_value(capability.variant)]
          ELSE [@ EXCEPT !.task = "raised"]]
    /\ UNCHANGED <<selectors, spawned, workers, worker_index, running, thread, index, sel, recent, capability,
                   calls, ctx, tasks_performed>>

\* result.result(timeout=N) raises concurrent.futures.TimeoutError: the task has
\* not resolved within N seconds (it is slow, it hangs, or its loop is gone).
Timeout(s) ==
    /\ BoundedWait(s)
    /\ subs[s].task \in {"pending", "running"}
    /\ capability.beh \in {"slow", "hangs"} \/ ~LoopAlive(s)
    /\ subs' = [subs EXCEPT ![s] =
          [@ EXCEPT !.pc = "returned", !.outcome = "timeout",
                    !.ret = failure_value(capability.variant),
                    !.task = after_timeout(subs[s].task)]]
    /\ UNCHANGED <<selectors, spawned, workers, worker_index, running, thread, index, sel, recent, capability,
                   calls, ctx, tasks_performed>>

\* The write of 'self.tasks_performed += 1', then 'return True' / 'return None'
\* / 'return res'.  The statement is a read and a write of the attribute with
\* no lock around them; other helper threads run in between.  The locals of the
\* increment are gone once it has returned.
Store(s) ==
    /\ subs[s].pc = "loaded"
    /\ tasks_performed' = [tasks_performed EXCEPT ![subs[s].worker] = subs[s].loaded + 1]
    /\ subs' = [subs EXCEPT ![s] =
          [@ EXCEPT !.pc = "returned", !.incs = @ + 1, !.loaded = 0,
                    !.ret = IF subs[s].outcome = "ff" THEN ff_value(capability.variant)
                            ELSE success_value(capability.variant, subs[s].res)]]
    /\ UNCHANGED <<selectors, spawned, workers, worker_index, running, thread, index, sel, recent, capability,
                   calls, ctx>>

NextSubmit ==
    \/ StartTarget
    \/ \E w \in WorkerIds : Run(w)
    \/ \E w \in WorkerIds : Ready(w)
    \/ \E w \in WorkerIds : Exit(w)
    \/ \E s \in SubIds, w \in WorkerIds, t \in TaskTimeouts, accepted \in BOOLEAN :
           Submit(s, w, t, accepted)
    \/ \E s \in SubIds : TaskBegin(s)
    \/ \E s \in SubIds, r \in {"True", "False", "Value", PyNone} : TaskFinish(s, r)
    \/ \E s \in SubIds : TaskRaise(s)
    \/ \E s \in SubIds : Timeout(s)
    \/ \E s \in SubIds : Store(s)

SpecSubmit == Init /\ [][NextSubmit]_vars

\* ------------------------------------ the program, with a fair master loop
\* The master loop keeps running the capability a gateway call awaits on the
\* master bot until it returns or raises.
SpecLive ==
    /\ Spec
    /\ \A c \in CallIds :
          WF_vars((\E ret \in {"True", "False", "Value", PyNone} : FallbackReturn(c, ret))
                     \/ FallbackRaise(c))

\* C11: under a fair master loop, every gateway call whose caller did not pass
\* task_timeout=None comes to an end, with a value returned or with an exception
\* raised to its caller, whatever the pool holds and whatever the capability
\* would do on a Worker.
C11_CallEventuallyEnds ==
    \A c \in CallIds :
        (calls[c].pc # "idle" /\ calls[c].passed # PyNone) ~> Finished(c)

C11_Witness ==
    \E c \in CallIds :
        /\ calls[c].pc = "returned" /\ calls[c].passed = Absent
        /\ calls[c].worker # 0 /\ ~calls[c].wrun
        /\ capability.beh = "hangs"

\* ------------------------------------------------- claims on the Worker
\* C12: a Worker's running flag is true only once its Execution Context has
\* finished connecting, and no coroutine is put on the loop of a Worker whose
\* context has not connected yet.
C12_RunningOnlyAfterConnected ==
    /\ \A w \in WorkerIds : running[w] => ctx[w] # "starting"
    /\ \A s \in SubIds : subs[s].task = "pending" => ctx[subs[s].worker] # "starting"

\* C13: once the run loop of a Worker's Execution Context has exited, the
\* Worker's running flag is false.
C13_ExitClearsRunning ==
    \A w \in WorkerIds : ctx[w] = "closed" => ~running[w]

\* C14: a submission to a Worker whose running flag is false has returned the
\* failure value of its variant in its first step, has put no coroutine on the
\* loop, and has not written tasks_performed.
C14_NotRunningFailsAtGuard ==
    \A s \in SubIds :
        (subs[s].pc # "idle" /\ ~subs[s].wrun)
            => /\ subs[s].pc = "returned" /\ subs[s].outcome = "not_running"
               /\ subs[s].ret = failure_value(capability.variant)
               /\ subs[s].task = "none"
               /\ subs[s].incs = 0

C14_Witness ==
    \E s \in SubIds :
        /\ subs[s].pc = "returned" /\ ~subs[s].wrun /\ subs[s].worker # 0
        /\ thread[subs[s].worker] = "Thread"
        /\ subs[s].ret = failure_value(capability.variant)

\* C15: a bounded submission whose task had not resolved when the wait ran out
\* has returned the failure value of its variant, and its coroutine is still on
\* the Worker's loop, pending or finished since: it was not cancelled.
C15_TimeoutFailsAndKeepsTask ==
    \A s \in SubIds :
        subs[s].outcome = "timeout"
            => /\ subs[s].pc = "returned" /\ subs[s].task_timeout = "10"
               /\ subs[s].ret = failure_value(capability.variant)
               /\ subs[s].task \in {"pending", "running", "done"}

C15_Witness ==
    \E s \in SubIds :
        /\ subs[s].outcome = "timeout" /\ subs[s].pc = "returned"
        /\ subs[s].task = "done"

\* C16: a bounded submission that timed out has not counted in tasks_performed
\* while its task is unfinished, and has counted once when its task has
\* finished on the Worker's loop.
C16_CountedWhenDetachedTaskFinishes ==
    \A s \in SubIds :
        subs[s].outcome = "timeout"
            => subs[s].incs = (IF subs[s].task = "done" THEN 1 ELSE 0)

\* C17: a submission with task_timeout 0 to a running Worker that put its
\* coroutine on the loop ends without waiting, and what it returns is not the
\* failure value of its variant.
C17_FireAndForgetReportsSuccess ==
    \A s \in SubIds :
        (subs[s].task_timeout = "0" /\ subs[s].wrun /\ subs[s].task # "none")
            => /\ subs[s].outcome = "ff"
               /\ subs[s].pc = "returned" => subs[s].ret # failure_value(capability.variant)

\* C18: a gateway call made with task_timeout=0 that obtained a running Worker
\* is handed to the Worker and is not run on the master bot, in both variants.
C18_FireAndForgetOffloaded ==
    \A c \in CallIds :
        (calls[c].passed = "0" /\ calls[c].worker # 0 /\ calls[c].wrun)
            => (calls[c].dispatch = "submitted" /\ calls[c].fallbackRuns = 0)

\* C19: every submission that put its coroutine on the loop and did not end in
\* a timeout has written tasks_performed exactly once when it returns: after a
\* successful wait, after a fire-and-forget dispatch, and after a task that raised.
C19_DispatchedCountsOnce ==
    \A s \in SubIds :
        (subs[s].pc = "returned" /\ subs[s].task # "none" /\ subs[s].outcome # "timeout")
            => subs[s].incs = 1

\* C20: no step lowers a Worker's tasks_performed.
C20_CounterNeverDecreases ==
    [][\A w \in WorkerIds : tasks_performed'[w] >= tasks_performed[w]]_vars

\* ------------------------------------------------- start(), called again
\* Worker.start() on Worker object w, whether it was started before or not.
\* The Worker objects are constructed in the order of their tokens.
StartCall(w) ==
    /\ Len(workers) < MaxStarts
    /\ sel.pc # "search"
    /\ IF w = 1 THEN TRUE ELSE thread[w - 1] = "Thread"
    /\ Start(w)

NextStart ==
    \/ \E w \in WorkerIds : StartCall(w)
    \/ \E w \in WorkerIds : Run(w)
    \/ \E search \in BOOLEAN : Select(search)
    \/ Probe

SpecStart == Init /\ [][NextStart]_vars

\* The positions of the pool that hold Worker object w.
PositionsOf(w) == {i \in 1..Len(workers) : workers[i] = w}

\* C21: every Worker holds at most one position of the pool, however often
\* start() was called on it.
C21_RegisteredOnce ==
    \A w \in WorkerIds : Cardinality(PositionsOf(w)) <= 1

\* C22: however often start() is called on a Worker, at most one thread is
\* created for it, and its Execution Context exists only on that thread.
C22_OneThreadPerWorker ==
    \A w \in WorkerIds :
        /\ spawned[w] <= 1
        /\ spawned[w] = 1 <=> thread[w] = "Thread"
        /\ ctx[w] # "None" => spawned[w] = 1

C22_Witness ==
    \E w \in WorkerIds :
        /\ Cardinality(PositionsOf(w)) >= 2
        /\ spawned[w] = 1 /\ running[w]

\* C23: the Worker at position i of the pool (0-based) has index i.
C23_IdIsPosition ==
    \A i \in 1..Len(workers) : index[workers[i]] = i - 1

\* C24: no step removes a Worker from the pool, shortens it, or changes the
\* Worker at an existing position.
C24_AppendOnly ==
    [][/\ Len(workers') >= Len(workers)
       /\ \A i \in 1..Len(workers) : workers'[i] = workers[i]]_vars

C24_Witness ==
    /\ Len(workers) >= 3
    /\ sel.pc = "done" /\ sel.search /\ sel.probes >= 1
    /\ sel.n = Len(workers)

\* ----------------------------------------- claims on the gateway's result
\* C25: a gateway call whose capability raised on the master bot has ended
\* with that exception raised to its caller and with no value, and no gateway
\* call runs the capability on the master bot more than once.
C25_FallbackFailureSurfacedOnce ==
    \A c \in CallIds :
        /\ calls[c].fallbackRuns <= 1
        /\ calls[c].exc = "FallbackFailure"
              => /\ calls[c].pc = "raised" /\ calls[c].fallbackRuns = 1
                 /\ calls[c].ret = PyNone /\ calls[c].result = PyNone

C25_Witness ==
    \E c \in CallIds :
        /\ calls[c].pc = "raised" /\ calls[c].exc = "FallbackFailure"
        /\ calls[c].worker # 0

\* C26: a command call whose capability returned False on the path that served
\* it hands False to its caller.
C26_CommandReportsCapability ==
    \A c \in CallIds :
        (capability.variant = "command" /\ calls[c].pc = "returned" /\ calls[c].ret = "False")
            => calls[c].result = "False"

\* wrapper, after the helper thread has handed back submitted (what
\* execute_task / execute_task_return returned, or "exception"): 'if not
\* success:' in offload_fallback, 'if result is None:' in offload_fallback_return,
\* where an exception of the submission has left success / result at its
\* initial False / None.
needs_fallback(variant, submitted) ==
    IF variant = "command" THEN submitted # "True"
    ELSE submitted \in {PyNone, "exception"}

\* wrapper: what the caller gets when the submission handed back submitted and
\* the capability, if it runs on the master bot, returns on_master.
wrapper_result(variant, submitted, on_master) ==
    IF needs_fallback(variant, submitted)
    THEN fallback_result(variant, on_master)
    ELSE submitted

\* The values a capability returns other than the failure value of its variant.
NonFailure(variant) == Returns(variant) \ {failure_value(variant)}

C28_WaitsOffLoop ==
    \A c \in CallIds :
        /\ (calls[c].worker # 0 /\ calls[c].wrun /\ calls[c].pc # "idle" /\ ~Finished(c))
              => calls[c].pc = "offloaded"
        /\ (calls[c].pc = "offloaded" /\ c < MaxCalls /\ calls[c + 1].pc = "idle")
              => ENABLED (\E passed \in Passed : Invoke(c + 1, passed))

\* The coroutine of submission s has begun on the loop.
Begun(s) == subs[s].task \in {"running", "done", "raised"}

C30_StartWorkersInOrder ==
    /\ Len(workers) <= MaxWorkers
    /\ \A i \in 1..Len(workers) :
          /\ workers[i] = i /\ index[i] = i - 1
          /\ thread[i] = "Thread" /\ spawned[i] = 1
    /\ \A w \in WorkerIds :
          w > Len(workers) => (thread[w] = "None" /\ index[w] = -1 /\ spawned[w] = 0)
    /\ (Len(workers) < MaxWorkers /\ sel.pc # "search") => ENABLED StartWorkers

C30_Witness ==
    /\ Len(workers) = MaxWorkers
    /\ index[MaxWorkers] = MaxWorkers - 1
    /\ \A w \in WorkerIds : spawned[w] = 1

\* ------------------------------------------------ claims on the cursor
\* C31: after a selection has returned the Worker at position j, the next
\* selection reads position (j + 1) mod N (the Workers of the pool are distinct
\* here, and a Worker's index is its position).
C31_CursorAfterReturned ==
    (sel.pc = "done" /\ sel.kind = "worker" /\ Len(workers) = sel.n)
        => Wrap(worker_index, sel.n) = (index[sel.worker] + 1) % sel.n

\* The submissions to Worker w that have returned after a successful wait or a
\* fire-and-forget dispatch.
Counted(w) ==
    {s \in SubIds : /\ subs[s].worker = w /\ subs[s].pc = "returned"
                    /\ subs[s].outcome \in {"ok", "ff"}}

\* C33: when no submission to a Worker is in the middle of its increment, the
\* Worker's tasks_performed is the number of its submissions that returned
\* without a timeout and without an error.
C33_NoLostIncrement ==
    \A w \in WorkerIds :
        (\A s \in SubIds : ~(subs[s].worker = w /\ subs[s].pc = "loaded"))
            => tasks_performed[w] = Cardinality(Counted(w))

\* ------------------------------------- selection, several threads at once
\* WorkerQueue.get_worker() (search=False) called by thread t, statement by
\* statement; nothing in WorkerQueue holds a lock, and the other threads run
\* between the statements.  Each of the MaxSelectors threads makes one call.
\* 'if self._worker_index >= len(self._workers): self._worker_index = 0'.
SelCheck(t) ==
    /\ selectors[t].pc = "idle"
    /\ worker_index' = Wrap(worker_index, Len(workers))
    /\ selectors' = [selectors EXCEPT ![t] =
          [IdleSelector EXCEPT !.pc = "checked", !.n = Len(workers)]]
    /\ UNCHANGED <<workers, running, thread, index, sel, recent, capability, calls, ctx,
                   tasks_performed, subs, spawned>>

\* 'worker = self._workers[self._worker_index]': the subscript is the cursor as
\* it is now; past the end of the list the statement raises IndexError.
SelRead(t) ==
    /\ selectors[t].pc = "checked"
    /\ selectors' = [selectors EXCEPT ![t] =
          IF worker_index >= Len(workers)
          THEN [@ EXCEPT !.pc = "raised", !.pos = worker_index]
          ELSE [@ EXCEPT !.pc = "read", !.pos = worker_index,
                         !.worker = WorkerAt(workers, worker_index)]]
    /\ UNCHANGED <<workers, worker_index, running, thread, index, sel, recent, capability,
                   calls, ctx, tasks_performed, subs, spawned>>

\* 'self._worker_index += 1': the read.
SelLoad(t) ==
    /\ selectors[t].pc = "read"
    /\ selectors' = [selectors EXCEPT ![t].pc = "loaded", ![t].loaded = worker_index]
    /\ UNCHANGED <<workers, worker_index, running, thread, index, sel, recent, capability,
                   calls, ctx, tasks_performed, subs, spawned>>

\* 'self._worker_index += 1': the write; then 'return worker'.
SelStore(t) ==
    /\ selectors[t].pc = "loaded"
    /\ worker_index' = Advance(selectors[t].loaded)
    /\ selectors' = [selectors EXCEPT ![t].pc = "done", ![t].loaded = 0]
    /\ UNCHANGED <<workers, running, thread, index, sel, recent, capability, calls, ctx,
                   tasks_performed, subs, spawned>>

NextRace ==
    \/ StartWorkers
    \/ \E w \in WorkerIds : Run(w)
    \/ \E t \in SelectorIds : SelCheck(t)
    \/ \E t \in SelectorIds : SelRead(t)
    \/ \E t \in SelectorIds : SelLoad(t)
    \/ \E t \in SelectorIds : SelStore(t)

SpecRace == Init /\ [][NextRace]_vars

\* C32: a call of get_worker that found at least one Worker in the pool at its
\* wrap test does not raise; the position it reads is inside
\* 0..len(workers)-1 and what it returns is a registered Worker.
C32_ConcurrentSelectInRange ==
    \A t \in SelectorIds :
        selectors[t].n >= 1
            => /\ selectors[t].pc # "raised"
               /\ selectors[t].pc \in {"read", "loaded", "done"}
                     => /\ selectors[t].pos \in 0..(Len(workers) - 1)
                        /\ \E i \in 1..Len(workers) : workers[i] = selectors[t].worker
====
